---- MODULE Spec2Model ----
(***************************************************************************)
(* Logical one-to-one operators of ray.data: AbstractOneToOne and Limit    *)
(* (python/ray/data/_internal/logical/operators/one_to_one_operator.py).   *)
(*                                                                         *)
(* The plan is a heap of immutable operator nodes, `ops`, indexed by the   *)
(* order of construction; a node's identity is its index.  `last` records  *)
(* the last constructor call or query together with its outcome (a         *)
(* returned value or the exception raised).  `report` is what the concrete *)
(* operators other than Limit infer (their inference is their own code);   *)
(* it is fixed when the plan starts, so it is pure.                        *)
(*                                                                         *)
(* Optional values: None is the empty tuple, a present v is <<v>>.         *)
(***************************************************************************)
EXTENDS Integers, Sequences, FiniteSets, TLC

VARIABLES ops, last, report

vars == <<ops, last, report>>

(* ---------------------------- bounds ----------------------------------- *)
MaxOps == 2
MaxRows == 2
MaxLimit == 2

(* ---------------------------- values ----------------------------------- *)
None == <<>>
Some(v) == <<v>>

Min(a, b) == IF a <= b THEN a ELSE b

Ok(v) == [kind |-> "ok", value |-> v]
Raise(e) == [kind |-> e]

\* limit: int -- the constructor takes any integer
Limits == {-1} \cup (0..MaxLimit)

OptRows == {None} \cup {Some(r) : r \in 0..MaxRows}

\* What a concrete operator other than Limit may report: its inference is
\* its own code, opaque here.  Every field occurs absent and present, and the
\* file list occurs with both orders.
Profiles ==
  { [size_bytes |-> None, input_files |-> <<>>,
     exec_stats |-> None, schema |-> None],
    [size_bytes |-> Some(64), input_files |-> <<"a.parquet", "b.parquet">>,
     exec_stats |-> None, schema |-> Some("col:int")],
    [size_bytes |-> Some(64), input_files |-> <<"b.parquet", "a.parquet">>,
     exec_stats |-> Some("stats"), schema |-> Some("col:int")],
    [size_bytes |-> None, input_files |-> <<"a.parquet">>,
     exec_stats |-> Some("stats"), schema |-> None] }

Reports ==
  { [num_rows |-> r, size_bytes |-> p.size_bytes, input_files |-> p.input_files,
     exec_stats |-> p.exec_stats, schema |-> p.schema] :
       r \in OptRows, p \in Profiles }

OptNumOutputs == {None, Some(1)}

NoCall == [kind |-> "none", op |-> 0, method |-> "", arg |-> None, outcome |-> None]

(* ------------------------- AbstractOneToOne ---------------------------- *)
\* `if input_op`: an operator object defines neither __bool__ nor __len__,
\* so it is truthy; None is falsy.
Truthy(input_op) == input_op # None

\* the input operator is not handed on to the base constructor
OneToOneDepsDropped(input_op) == <<>>

\* [input_op] if input_op else []
OneToOneDeps(input_op) == IF Truthy(input_op) THEN <<input_op[1]>> ELSE <<>>

\* LogicalOperator.__init__(name, input_dependencies, num_outputs)
NewOperator(cls, name, deps, num_outputs, limit) ==
  [cls |-> cls, name |-> name, deps |-> deps,
   num_outputs |-> num_outputs, limit |-> limit]

\* AbstractOneToOne.__init__(name, input_op, num_outputs)
AbstractOneToOneInit(cls, name, input_op, num_outputs, limit) ==
  NewOperator(cls, name, OneToOneDeps(input_op), num_outputs, limit)

\* f"limit={limit}"
LimitName(limit) == <<"limit=", limit>>

\* Limit.__init__(input_op, limit)
LimitInit(input_op, limit) ==
  AbstractOneToOneInit("Limit", LimitName(limit), input_op, None, Some(limit))

\* input_dependency: self._input_dependencies[0]
InputDependency(deps) ==
  IF Len(deps) = 0 THEN Raise("IndexError") ELSE Ok(deps[1])

(* ------------------------------ Limit ---------------------------------- *)
\* the assertion only rejects the empty sequence
ArityAssertNonEmpty(deps) == Len(deps) >= 1

\* assert len(self._input_dependencies) == 1
\* (the isinstance assertion always passes: dependencies are operators)
ArityAssert(deps) == Len(deps) = 1

\* the limit is reported whenever the upstream count is known
NumRowsOfLimitOnly(input_rows, limit) ==
  IF input_rows # None THEN Some(limit) ELSE None

\* an unknown upstream count defaults to the limit
NumRowsOfDefaultLimit(input_rows, limit) ==
  IF input_rows # None THEN Some(Min(input_rows[1], limit)) ELSE Some(limit)

\* min(input_rows, limit) if input_rows is not None else None
NumRowsOf(input_rows, limit) ==
  IF input_rows # None THEN Some(Min(input_rows[1], limit)) ELSE None

\* BlockMetadata(num_rows=..., size_bytes=None, input_files=..., exec_stats=None)
BlockMetadata(num_rows, input_files) ==
  [num_rows |-> num_rows, size_bytes |-> None,
   input_files |-> input_files, exec_stats |-> None]

RECURSIVE InferMetadata(_, _, _)
RECURSIVE InferSchema(_, _, _)

\* Limit._num_rows
LimitNumRows(o, rep, n) ==
  IF ~ArityAssert(o[n].deps) THEN Raise("AssertionError")
  ELSE LET up == InferMetadata(o, rep, o[n].deps[1])
       IN  IF up.kind # "ok" THEN up
           ELSE Ok(NumRowsOf(up.value.num_rows, o[n].limit[1]))

Reverse(s) == [i \in 1..Len(s) |-> s[Len(s) + 1 - i]]

\* the upstream file list comes back in the opposite order
LimitInputFilesReversed(o, rep, n) ==
  IF Len(o[n].deps) # 1 THEN Raise("AssertionError")
  ELSE LET up == InferMetadata(o, rep, o[n].deps[1])
       IN  IF up.kind # "ok" THEN up ELSE Ok(Reverse(up.value.input_files))

\* Limit._input_files
LimitInputFiles(o, rep, n) ==
  IF ~ArityAssert(o[n].deps) THEN Raise("AssertionError")
  ELSE LET up == InferMetadata(o, rep, o[n].deps[1])
       IN  IF up.kind # "ok" THEN up ELSE Ok(up.value.input_files)

\* the upstream metadata is copied and only its row count replaced
LimitInferMetadataCopy(o, rep, n) ==
  LET rows == LimitNumRows(o, rep, n)
  IN  IF rows.kind # "ok" THEN rows
      ELSE LET up == InferMetadata(o, rep, o[n].deps[1])
           IN  Ok([up.value EXCEPT !.num_rows = rows.value])

\* Limit.infer_metadata: the arguments are evaluated in order, and the first
\* exception leaves the call
LimitInferMetadata(o, rep, n) ==
  LET rows == LimitNumRows(o, rep, n)
  IN  IF rows.kind # "ok" THEN rows
      ELSE LET files == LimitInputFiles(o, rep, n)
           IN  IF files.kind # "ok" THEN files
               ELSE Ok(BlockMetadata(rows.value, files.value))

\* a limit of 0 is taken to have no schema
LimitInferSchemaEmpty(o, rep, n) ==
  IF Len(o[n].deps) # 1 THEN Raise("AssertionError")
  ELSE IF o[n].limit[1] = 0 THEN Ok(None)
  ELSE InferSchema(o, rep, o[n].deps[1])

\* Limit.infer_schema
LimitInferSchema(o, rep, n) ==
  IF ~ArityAssert(o[n].deps) THEN Raise("AssertionError")
  ELSE InferSchema(o, rep, o[n].deps[1])

\* op.infer_metadata(), dispatched on the operator's class
InferMetadata(o, rep, n) ==
  IF o[n].cls = "Limit" THEN LimitInferMetadata(o, rep, n)
  ELSE Ok([num_rows |-> rep.num_rows, size_bytes |-> rep.size_bytes,
           input_files |-> rep.input_files, exec_stats |-> rep.exec_stats])

\* op.infer_schema(), dispatched on the operator's class
InferSchema(o, rep, n) ==
  IF o[n].cls = "Limit" THEN LimitInferSchema(o, rep, n)
  ELSE Ok(rep.schema)

\* inference caches its bound in the operator: the limit shrinks by one
AfterInferenceCaching(o, n) ==
  IF o[n].cls = "Limit" /\ o[n].limit[1] > 0
  THEN [o EXCEPT ![n].limit = Some(o[n].limit[1] - 1)]
  ELSE o

\* Inference assigns no attribute of any operator
AfterInference(o, n) == o

(* ----------------------------- actions --------------------------------- *)
Init ==
  /\ ops = <<>>
  /\ last = NoCall
  /\ report \in Reports

Ids == 1..Len(ops)

OptIds == {None} \cup {Some(i) : i \in Ids}

\* A concrete one-to-one operator other than Limit is constructed
NewOneToOne(input_op, num_outputs) ==
  /\ Len(ops) < MaxOps
  /\ ops' = Append(ops, AbstractOneToOneInit("OneToOne", <<"Op">>, input_op,
                                             num_outputs, None))
  /\ last' = [kind |-> "new", op |-> Len(ops) + 1, method |-> "AbstractOneToOne",
              arg |-> input_op, outcome |-> None]
  /\ UNCHANGED report

\* Limit(input_op, limit)
NewLimit(input_op, limit) ==
  /\ Len(ops) < MaxOps
  /\ ops' = Append(ops, LimitInit(input_op, limit))
  /\ last' = [kind |-> "new", op |-> Len(ops) + 1, method |-> "Limit",
              arg |-> input_op, outcome |-> None]
  /\ UNCHANGED report

\* A misconstructed subtype hands the base constructor two dependencies
NewMisconstructed(cls, a, b, limit) ==
  /\ Len(ops) < MaxOps
  /\ cls = "OneToOne" => limit = None
  /\ cls = "Limit" => limit # None
  /\ ops' = Append(ops, NewOperator(cls, <<"Bad">>, <<a, b>>, None, limit))
  /\ last' = [kind |-> "new", op |-> Len(ops) + 1, method |-> "LogicalOperator",
              arg |-> None, outcome |-> None]
  /\ UNCHANGED report

CallInferMetadata(n) ==
  /\ ops' = AfterInference(ops, n)
  /\ last' = [kind |-> "call", op |-> n, method |-> "infer_metadata",
              arg |-> None, outcome |-> InferMetadata(ops, report, n)]
  /\ UNCHANGED report

CallInferSchema(n) ==
  /\ ops' = AfterInference(ops, n)
  /\ last' = [kind |-> "call", op |-> n, method |-> "infer_schema",
              arg |-> None, outcome |-> InferSchema(ops, report, n)]
  /\ UNCHANGED report

ReadInputDependency(n) ==
  /\ last' = [kind |-> "call", op |-> n, method |-> "input_dependency",
              arg |-> None, outcome |-> InputDependency(ops[n].deps)]
  /\ UNCHANGED <<ops, report>>

Next ==
  \/ \E i \in OptIds, k \in OptNumOutputs : NewOneToOne(i, k)
  \/ \E i \in OptIds, l \in Limits : NewLimit(i, l)
  \/ \E c \in {"OneToOne", "Limit"}, a \in Ids, b \in Ids,
        l \in {None} \cup {Some(x) : x \in Limits} : NewMisconstructed(c, a, b, l)
  \/ \E n \in Ids : CallInferMetadata(n)
  \/ \E n \in Ids : CallInferSchema(n)
  \/ \E n \in Ids : ReadInputDependency(n)

Spec == Init /\ [][Next]_vars

(* --------------------------- properties -------------------------------- *)
IsCall(m) == last.kind = "call" /\ last.method = m

\* the operator the last call was made on
Callee == ops[last.op]

\* the last call was Limit.m() on a Limit with exactly one dependency
LimitCall(m) == IsCall(m) /\ Callee.cls = "Limit" /\ Len(Callee.deps) = 1

\* what the upstream operator of the callee reports
UpMetadata == InferMetadata(ops, report, Callee.deps[1])
UpSchema == InferSchema(ops, report, Callee.deps[1])

\* C1: a Limit with limit L >= 0 over an upstream that reports a known row
\* count r infers num_rows = min(r, L)
C1_NumRowsIsMin ==
  (/\ LimitCall("infer_metadata")
   /\ Callee.limit[1] >= 0
   /\ UpMetadata.kind = "ok"
   /\ UpMetadata.value.num_rows # None)
  => /\ last.outcome.kind = "ok"
     /\ LET r == UpMetadata.value.num_rows[1]
            L == Callee.limit[1]
        IN  last.outcome.value.num_rows = Some(IF r <= L THEN r ELSE L)

\* C1 witness: the upstream count is below the limit and comes back unchanged
C1_Witness ==
  /\ LimitCall("infer_metadata")
  /\ UpMetadata.kind = "ok"
  /\ UpMetadata.value.num_rows = Some(1)
  /\ Callee.limit = Some(2)
  /\ last.outcome = Ok(BlockMetadata(Some(1), UpMetadata.value.input_files))

\* C2: a Limit over an upstream that reports no row count infers no row
\* count, whatever the limit
C2_UnknownStaysUnknown ==
  (/\ LimitCall("infer_metadata")
   /\ UpMetadata.kind = "ok"
   /\ UpMetadata.value.num_rows = None)
  => /\ last.outcome.kind = "ok"
     /\ last.outcome.value.num_rows = None

\* C2 witness: unknown upstream count, limit 2, no count inferred
C2_Witness ==
  /\ LimitCall("infer_metadata")
  /\ UpMetadata.kind = "ok"
  /\ UpMetadata.value.num_rows = None
  /\ Callee.limit = Some(2)
  /\ last.outcome.kind = "ok"
  /\ last.outcome.value.num_rows = None

\* C3: a Limit with exactly one dependency infers the upstream operator's
\* input_files, same elements in the same order (and fails as the upstream
\* inference fails)
C3_InputFilesPassThrough ==
  LimitCall("infer_metadata")
  => IF UpMetadata.kind = "ok"
     THEN /\ last.outcome.kind = "ok"
          /\ last.outcome.value.input_files = UpMetadata.value.input_files
     ELSE last.outcome = UpMetadata

\* C3 witness: limit 0 over an upstream with two files, b before a
C3_Witness ==
  /\ LimitCall("infer_metadata")
  /\ Callee.limit = Some(0)
  /\ UpMetadata.kind = "ok"
  /\ UpMetadata.value.input_files = <<"b.parquet", "a.parquet">>
  /\ last.outcome.kind = "ok"
  /\ last.outcome.value.input_files = <<"b.parquet", "a.parquet">>

\* C4: a Limit with exactly one dependency infers exactly the schema its
\* upstream operator infers, present or absent, whatever the limit
C4_SchemaPassThrough ==
  LimitCall("infer_schema") => last.outcome = UpSchema

\* C4 witness: limit 0 over an upstream with a schema
C4_Witness ==
  /\ LimitCall("infer_schema")
  /\ Callee.limit = Some(0)
  /\ UpSchema = Ok(Some("col:int"))
  /\ last.outcome = Ok(Some("col:int"))

\* C5: metadata a Limit infers has size_bytes and exec_stats absent, whatever
\* the upstream reports for them
C5_SizeAndStatsAbsent ==
  (/\ IsCall("infer_metadata")
   /\ Callee.cls = "Limit"
   /\ last.outcome.kind = "ok")
  => /\ last.outcome.value.size_bytes = None
     /\ last.outcome.value.exec_stats = None

\* C5 witness: the upstream reports a size and statistics, the Limit neither
C5_Witness ==
  /\ LimitCall("infer_metadata")
  /\ UpMetadata.kind = "ok"
  /\ UpMetadata.value.size_bytes # None
  /\ UpMetadata.value.exec_stats # None
  /\ last.outcome.kind = "ok"
  /\ last.outcome.value.size_bytes = None

\* C6: the one-to-one constructor gives no dependency for an absent input
\* operator and exactly that operator for a present one, which
\* input_dependency returns
C6_ConstructorDependencies ==
  (last.kind = "new" /\ last.method \in {"AbstractOneToOne", "Limit"})
  => IF last.arg = None
     THEN Callee.deps = <<>>
     ELSE /\ Len(Callee.deps) = 1
          /\ Callee.deps[1] = last.arg[1]
          /\ InputDependency(Callee.deps) = Ok(last.arg[1])

\* C6 witness: a one-to-one operator constructed over operator 1
C6_Witness ==
  /\ last.kind = "new"
  /\ last.method = "AbstractOneToOne"
  /\ last.arg = Some(1)
  /\ Callee.deps = <<1>>

\* C7: infer_metadata and infer_schema of a Limit without exactly one
\* dependency end in an assertion failure and return nothing
C7_WrongArityAsserts ==
  (/\ last.kind = "call"
   /\ last.method \in {"infer_metadata", "infer_schema"}
   /\ Callee.cls = "Limit"
   /\ Len(Callee.deps) # 1)
  => last.outcome = Raise("AssertionError")

\* C7 witness: infer_metadata of a Limit constructed without input operator
C7_Witness ==
  /\ IsCall("infer_metadata")
  /\ Callee.cls = "Limit"
  /\ Callee.deps = <<>>
  /\ last.outcome = Raise("AssertionError")

\* C8: input_dependency of a one-to-one operator without exactly one
\* dependency fails and returns no operator
C8_InputDependencyChecksArity ==
  (IsCall("input_dependency") /\ Len(Callee.deps) # 1)
  => last.outcome.kind # "ok"

\* C9: an inference call changes no field of any operator, and what any
\* operator infers is the same before and after every step (trivially so
\* where the step leaves the plan as it is)
C9_InferenceIsPure ==
  [][/\ (last'.kind = "call" /\ last'.method \in {"infer_metadata", "infer_schema"})
        => ops' = ops
     /\ \/ ops' = ops /\ report' = report
        \/ \A n \in 1..Len(ops) :
             /\ n <= Len(ops')
             /\ InferMetadata(ops', report', n) = InferMetadata(ops, report, n)
             /\ InferSchema(ops', report', n) = InferSchema(ops, report, n)]_vars

\* C9 witness: inference has returned metadata for a Limit with limit 2
C9_Witness ==
  /\ LimitCall("infer_metadata")
  /\ Callee.limit = Some(2)
  /\ Len(ops) = MaxOps
  /\ last.outcome.kind = "ok"
  /\ last.outcome = InferMetadata(ops, report, last.op)

\* C10: the row count a constructed Limit infers is absent or non-negative
C10_NumRowsNonNegative ==
  (/\ IsCall("infer_metadata")
   /\ Callee.cls = "Limit"
   /\ last.outcome.kind = "ok")
  => \/ last.outcome.value.num_rows = None
     \/ last.outcome.value.num_rows[1] >= 0

====
